---- MODULE Spec2Model ----
(***************************************************************************)
(* Seat-booking core of show-sparkle-booking.                              *)
(*                                                                         *)
(* Two stores are modelled, each with the database functions and the       *)
(* client handlers that write to it:                                       *)
(*   - app_bookings (seats embedded as JSONB): complete_app_booking,       *)
(*     complete_guest_booking, cancel_app_booking, and the direct insert   *)
(*     of pages/Booking.tsx;                                               *)
(*   - bookings / booking_seats / seat_reservations: reserve_seats,        *)
(*     complete_booking, cancel_booking, check_seat_availability,          *)
(*     cleanup_expired_reservations, and the two-request insert of         *)
(*     handleProceedToPayment.                                             *)
(*                                                                         *)
(* Every database function runs as one READ COMMITTED transaction of a     *)
(* client session.  A session is a process of the model; its statements    *)
(* are separate steps wherever another session can observe or change the   *)
(* rows between them.  now() is the start time of the transaction.         *)
(* Money is counted in units of 0.005 so that total * 0.5 is exact.        *)
(*                                                                         *)
(* Assumptions: _seat_ids lists distinct ids of existing seats; a          *)
(* signed-in user runs one session, which passes its own user.id to        *)
(* reserve_seats and complete_booking (hooks of useRealtimeSeats); the     *)
(* clock does not advance while a reserving or booking transaction is      *)
(* open; a transaction aborted by a deadlock is not modelled; the last     *)
(* INSERT of a function commits it.                                        *)
(***************************************************************************)
EXTENDS Integers, Sequences, FiniteSets, TLC

\* ------------------------------------------------------------------ bounds
MaxTime == 15
TickStep == 5

\* ------------------------------------------------------------- input sets
\* Client sessions and the identity auth.uid() of each (NULL: anonymous).
Sessions == {"c1", "c2", "c3"}
Users == {"u1", "u2"}
NULL == "NULL"
SessionUser == [c1 |-> "u1", c2 |-> "u2", c3 |-> NULL]
\* the sessions that run the general workload
Clients == {"c1", "c3"}
\* a timestamp column that is NULL
NoTime == -1
Seats == {"A1", "A2"}

\* A showing of app_bookings: (tmdb_movie_id, theater_name, show_date,
\* show_time); each component is a text, a sequence of character codes.
S1 == [tmdb_movie_id |-> <<55>>, theater_name |-> <<67>>, show_date |-> <<49>>, show_time |-> <<49>>]
S2 == [tmdb_movie_id |-> <<55>>, theater_name |-> <<67>>, show_date |-> <<49>>, show_time |-> <<50>>]
Showings == {S1, S2}
\* show_date + show_time of a showing on the clock of the model
AppShowStart(sh) == IF sh.show_time = <<49>> THEN 10 ELSE 1450

\* a JSONB argument: an array of seats (kept as the set of their ids), SQL
\* NULL, or a JSON value that is not an array
JsonArray(ids) == [kind |-> "array", ids |-> ids]
SeatInputs ==
  {JsonArray(ids) : ids \in SUBSET Seats} \cup {[kind |-> "null", ids |-> {}], [kind |-> "object", ids |-> {}]}
\* a TEXT argument: NULL or a sequence of characters
Text(s) == [isnull |-> FALSE, chars |-> s]
NullText == [isnull |-> TRUE, chars |-> <<>>]
Amounts == {2000}
GuestTexts == {NullText, Text(<<" ">>), Text(<<"A">>)}
\* the values substr(md5(random()::text), 1, 6) can take; booking_reference
\* is UNIQUE, so the table never holds more rows than there are suffixes
\* (as character codes: the lower-case digits '0a1b2c' and '3d4e5f')
Digits1 == <<48, 97, 49, 98, 50, 99>>
Digits2 == <<51, 100, 52, 101, 53, 102>>
RandomSuffixes == {Digits1, Digits2}

\* The bookings / booking_seats / seat_reservations store: shows with their
\* start (minutes on the clock) and base price, seats with their price
\* multiplier in hundredths.  A _seat_ids argument is a set of seat ids.
Shows == {"sh1", "sh2"}
ShowStart == [sh1 |-> 1450, sh2 |-> 10]
BasePrice == [sh1 |-> 2000, sh2 |-> 2000]
PriceMultiplier == [A1 |-> 100, A2 |-> 150]
\* the shows the general workload books, and the suffixes it draws
HoldShows == {"sh1"}
HoldSuffixes == {Digits1}
\* the sessions that use this store; each passes its own user.id
HoldClients == {"c1", "c2"}
\* expires_at DEFAULT (now() + interval '10 minutes')
HoldTTL == 10
\* 24 hours, in minutes
RefundWindow == 1440

\* ------------------------------------------------------------------ state
VARIABLES
  now,            \* the database clock, in minutes
  app_bookings,   \* table app_bookings: sequence of rows, id = position
  advisory,       \* advisory locks held: set of <<key, session>>
  pc,             \* position of each session inside its current call
  call,           \* arguments and locals of each session's current call
  result,         \* what the current call returned or raised
  seat_reservations,  \* table seat_reservations: set of committed rows
  booking_seats,      \* table booking_seats: set of committed rows
  bookings,           \* table bookings: sequence of rows, id = position
  page                \* the booking page of each session: its selected seats
                      \* and the seats it shows as booked

vars == <<now, app_bookings, advisory, pc, call, result,
          seat_reservations, booking_seats, bookings, page>>
appStore == <<app_bookings, advisory>>
showStore == <<seat_reservations, booking_seats, bookings>>

NoCall == [op |-> "none"]
\* a page just opened: nothing selected, no seat shown as booked
NoPage == [selectedSeats |-> {}, isBooked |-> {}]

\* ---------------------------------------------------------- pure helpers
HashRange == 1000003
RECURSIVE HashFold(_, _)
HashFold(h, s) ==
  IF s = <<>> THEN h ELSE HashFold((h * 31 + Head(s)) % HashRange, Tail(s))

\* hashtext(text)::BIGINT: a deterministic hash of the text into a finite
\* range (different texts may collide).
hashtext(s) == HashFold(7, s)

\* _tmdb_movie_id || '|' || _theater_name || '|' || _show_date::text || '|' || _show_time::text
LockText(sh) ==
  sh.tmdb_movie_id \o <<124>> \o sh.theater_name \o <<124>> \o sh.show_date \o <<124>> \o sh.show_time

v_lock_key(sh) == hashtext(LockText(sh))

\* trim(text) = '' for a text of single-character strings
RECURSIVE IsBlank(_)
IsBlank(s) == IF s = <<>> THEN TRUE ELSE Head(s) = " " /\ IsBlank(Tail(s))

\* _seats IS NULL OR jsonb_typeof(_seats) <> 'array' OR jsonb_array_length(_seats) = 0
NoSeatsSelectedUnlessEmpty(seats) == seats.kind # "array"

NoSeatsSelected(seats) == seats.kind # "array" \/ seats.ids = {}

\* _guest_name IS NULL OR trim(_guest_name) = ''
TextMissing(t) == t.isnull \/ IsBlank(t.chars)

\* to_char(now(), 'YYYYMMDD'): the day the clock value falls in
Day(t) == t \div 1440

\* upper(text) and lower(text) on character codes
upper(s) == [i \in 1..Len(s) |-> IF s[i] \in 97..122 THEN s[i] - 32 ELSE s[i]]
lower(s) == [i \in 1..Len(s) |-> IF s[i] \in 65..90 THEN s[i] + 32 ELSE s[i]]

\* A booking reference is kept in its three parts: the letters before the
\* date, the date digits, and the characters after the '-'.
\* generate_booking_reference(): 'BK' || to_char(now(), 'YYYYMMDD') || '-' ||
\* upper(substr(md5(random()::text), 1, 6))
generate_booking_reference(t, suffix) ==
  [prefix |-> <<66, 75>>, date |-> Day(t), suffix |-> upper(suffix)]

\* pages/Booking.tsx: `BK${format(new Date(), 'yyyyMMdd')}-${Math.random()
\* .toString(36).substring(2, 8).toUpperCase()}`
bookingRef(t, suffix) ==
  [prefix |-> <<66, 75>>, date |-> Day(t), suffix |-> upper(suffix)]

\* upper(_booking_reference) / lower(...) of a reference text
UpperRef(text) == [text EXCEPT !.prefix = upper(@), !.suffix = upper(@)]
LowerRef(text) == [text EXCEPT !.prefix = lower(@), !.suffix = lower(@)]

Rows(tbl) == {tbl[i] : i \in 1..Len(tbl)}

\* the WHERE clause that selects the rows of a showing
SameShowingIgnoringTime(ab, sh) ==
  /\ ab.tmdb_movie_id = sh.tmdb_movie_id
  /\ ab.theater_name = sh.theater_name
  /\ ab.show_date = sh.show_date

SameShowing(ab, sh) ==
  /\ ab.tmdb_movie_id = sh.tmdb_movie_id
  /\ ab.theater_name = sh.theater_name
  /\ ab.show_date = sh.show_date
  /\ ab.show_time = sh.show_time

ShowingOf(ab) ==
  [tmdb_movie_id |-> ab.tmdb_movie_id, theater_name |-> ab.theater_name,
   show_date |-> ab.show_date, show_time |-> ab.show_time]

\* get_app_booked_seat_ids: seat ids of the non-cancelled rows of a showing
get_app_booked_seat_idsWithCancelled(tbl, sh) ==
  UNION {ab.seats : ab \in {r \in Rows(tbl) : SameShowing(r, sh)}}

get_app_booked_seat_ids(tbl, sh) ==
  UNION {ab.seats : ab \in {r \in Rows(tbl) : SameShowing(r, sh) /\ r.status # "cancelled"}}

SeatConflictWholeRequest(tbl, sh, v_seat_ids) ==
  \E ab \in Rows(tbl) :
    /\ SameShowing(ab, sh)
    /\ ab.status # "cancelled"
    /\ v_seat_ids \subseteq ab.seats

\* the conflict query of complete_app_booking / complete_guest_booking
SeatConflict(tbl, sh, v_seat_ids) ==
  \E ab \in Rows(tbl) :
    /\ SameShowing(ab, sh)
    /\ ab.status # "cancelled"
    /\ \E s \in ab.seats : s \in v_seat_ids

\* UNIQUE (booking_reference) of app_bookings
AppRefTaken(tbl, ref) == \E ab \in Rows(tbl) : ab.booking_reference = ref

AppRowPending(id, uid, sh, seats, total, ref, guest, gname, gemail) ==
  [id |-> id, user_id |-> uid,
   tmdb_movie_id |-> sh.tmdb_movie_id, theater_name |-> sh.theater_name,
   show_date |-> sh.show_date, show_time |-> sh.show_time,
   seats |-> seats, total_amount |-> total, booking_reference |-> ref,
   status |-> "pending", cancelled_at |-> NoTime, refund_amount |-> 0,
   is_guest_booking |-> guest, guest_name |-> gname, guest_email |-> gemail]

AppRow(id, uid, sh, seats, total, ref, guest, gname, gemail) ==
  [id |-> id, user_id |-> uid,
   tmdb_movie_id |-> sh.tmdb_movie_id, theater_name |-> sh.theater_name,
   show_date |-> sh.show_date, show_time |-> sh.show_time,
   seats |-> seats, total_amount |-> total, booking_reference |-> ref,
   status |-> "confirmed", cancelled_at |-> NoTime, refund_amount |-> 0,
   is_guest_booking |-> guest, guest_name |-> gname, guest_email |-> gemail]

\* pg_advisory_xact_lock is granted when no other session holds the key
LockGrantedAlways(key, p) == TRUE

LockGranted(key, p) == ~\E e \in advisory : e[1] = key /\ e[2] # p

\* the end of a transaction releases the advisory locks it took
ReleaseLocksNever(p) == advisory

ReleaseLocks(p) == {e \in advisory : e[2] # p}

\* PERFORM pg_advisory_xact_lock(key): the session waits until the key is
\* free and then holds it
pg_advisory_xact_lockNoWait(key, p) == advisory' = advisory \cup {<<key, p>>}

pg_advisory_xact_lock(key, p) ==
  /\ LockGranted(key, p)
  /\ advisory' = advisory \cup {<<key, p>>}

\* ------------------------------------------------------------------- Init
Init ==
  /\ now = 0
  /\ app_bookings = <<>>
  /\ advisory = {}
  /\ pc = [p \in Sessions |-> "idle"]
  /\ call = [p \in Sessions |-> NoCall]
  /\ result = [p \in Sessions |-> "none"]
  /\ page = [p \in Sessions |-> NoPage]
  /\ seat_reservations = {}
  /\ booking_seats = {}
  /\ bookings = <<>>

\* ---------------------------------------------------------------- actions
\* the call ends (RETURN, or RAISE and rollback): its locals are gone and
\* the client holds the outcome
Finish(p, r) ==
  /\ pc' = [pc EXCEPT ![p] = "done"]
  /\ call' = [call EXCEPT ![p] = NoCall]
  /\ result' = [result EXCEPT ![p] = r]

Proceed(p, stage, c) ==
  /\ pc' = [pc EXCEPT ![p] = stage]
  /\ call' = [call EXCEPT ![p] = c]
  /\ UNCHANGED result

FinalizeCall(uid, sh, seats, total, guest, gname, gemail) ==
  [op |-> "finalize", v_user_id |-> uid, showing |-> sh, seats |-> seats.ids,
   total |-> total, guest |-> guest, guest_name |-> gname, guest_email |-> gemail,
   v_conflict |-> FALSE, txnow |-> now]

\* complete_app_booking, up to the advisory lock request
complete_app_booking(p, sh, seats, total) ==
  /\ pc[p] = "idle"
  /\ IF SessionUser[p] = NULL
       THEN Finish(p, "not_authenticated")
       ELSE IF NoSeatsSelected(seats)
         THEN Finish(p, "no_seats_selected")
         ELSE Proceed(p, "lock", FinalizeCall(SessionUser[p], sh, seats, total, FALSE, NullText, NullText))
  /\ UNCHANGED <<page, now, app_bookings, advisory, showStore>>

\* complete_guest_booking, up to the advisory lock request
complete_guest_booking(p, sh, seats, total, gname, gemail) ==
  /\ pc[p] = "idle"
  /\ IF NoSeatsSelected(seats)
       THEN Finish(p, "no_seats_selected")
       ELSE IF TextMissing(gname)
         THEN Finish(p, "guest_name_required")
         ELSE IF TextMissing(gemail)
           THEN Finish(p, "guest_email_required")
           ELSE Proceed(p, "lock", FinalizeCall(NULL, sh, seats, total, TRUE, gname, gemail))
  /\ UNCHANGED <<page, now, app_bookings, advisory, showStore>>

\* PERFORM pg_advisory_xact_lock(v_lock_key): waits while another session
\* holds the key, and the lock lasts until the transaction ends.  The
\* conflict query SELECT EXISTS (...) INTO v_conflict follows in the same
\* step; it reads the rows committed so far.
FinalizeLockAndCheck(p) ==
  /\ pc[p] = "lock"
  /\ pg_advisory_xact_lock(v_lock_key(call[p].showing), p)
  /\ Proceed(p, "insert",
       [call[p] EXCEPT !.v_conflict = SeatConflict(app_bookings, call[p].showing, call[p].seats)])
  /\ UNCHANGED <<page, now, app_bookings, showStore>>

\* IF v_conflict THEN RAISE; generate the reference; INSERT; end of the
\* transaction (commit, or rollback after RAISE or a violation of
\* UNIQUE (booking_reference)), which releases the advisory lock.
\* complete_app_booking ends its INSERT with RETURNING id, booking_reference
\* INTO booking_id, booking_reference, where booking_reference names both
\* the column and the function's output variable: under
\* plpgsql.variable_conflict = error (the default) the statement is refused
\* as ambiguous, under use_column it runs.  The setting belongs to the
\* deployment, so both outcomes are possible.  complete_guest_booking
\* returns id INTO v_booking_id and has no such name.
FinalizeInsert(p) ==
  /\ pc[p] = "insert"
  /\ advisory' = ReleaseLocks(p)
  /\ IF call[p].v_conflict
       THEN Finish(p, "seats_unavailable") /\ UNCHANGED app_bookings
       ELSE \/ /\ ~call[p].guest
               /\ Finish(p, "ambiguous_column_reference")
               /\ UNCHANGED app_bookings
            \/ \E suffix \in RandomSuffixes :
                 LET ref == generate_booking_reference(call[p].txnow, suffix) IN
                   IF AppRefTaken(app_bookings, ref)
                     THEN Finish(p, "duplicate_booking_reference") /\ UNCHANGED app_bookings
                     ELSE /\ app_bookings' = Append(app_bookings,
                               AppRow(Len(app_bookings) + 1, call[p].v_user_id, call[p].showing,
                                      call[p].seats, call[p].total, ref, call[p].guest,
                                      call[p].guest_name, call[p].guest_email))
                          /\ Finish(p, "ok")
  /\ UNCHANGED <<page, now, showStore>>

\* IF booking_record.status = 'cancelled' THEN ... RETURN
AlreadyCancelledNever(booking_record) == FALSE

AlreadyCancelled(booking_record) == booking_record.status = "cancelled"

\* WHERE id = _booking_id AND user_id = _user_id (a NULL user_id matches
\* no _user_id)
OwnedByNullMatches(tbl, bid, uid) == {b \in Rows(tbl) : b.id = bid /\ b.user_id = uid}

OwnedBy(tbl, bid, uid) ==
  {b \in Rows(tbl) : b.id = bid /\ b.user_id # NULL /\ uid # NULL /\ b.user_id = uid}

\* cancel_app_booking: calculated_refund := booking_record.total_amount * 0.5
app_calculated_refundFull(total) == total

app_calculated_refund(total) == total \div 2

\* cancel_app_booking: SELECT ... INTO booking_record and the two guards
cancel_app_booking(p, bid, uid) ==
  /\ pc[p] = "idle"
  /\ LET found == OwnedBy(app_bookings, bid, uid) IN
       IF found = {}
         THEN Finish(p, "booking_not_found")
         ELSE IF \E ab \in found : AlreadyCancelled(ab)
           THEN Finish(p, "already_cancelled")
           ELSE Proceed(p, "cancel_update",
                  [op |-> "cancel", booking_id |-> bid,
                   total_amount |-> app_bookings[bid].total_amount, txnow |-> now])
  /\ UNCHANGED <<page, now, app_bookings, advisory, showStore>>

\* cancel_app_booking: calculated_refund := total_amount * 0.5; UPDATE
CancelAppUpdate(p) ==
  /\ pc[p] = "cancel_update"
  /\ app_bookings' = [app_bookings EXCEPT ![call[p].booking_id] =
       [@ EXCEPT !.status = "cancelled", !.cancelled_at = call[p].txnow,
                 !.refund_amount = app_calculated_refund(call[p].total_amount)]]
  /\ Finish(p, "cancelled")
  /\ UNCHANGED <<page, now, advisory, showStore>>

\* the client has its answer; the session is free for the next call
Return(p) ==
  /\ pc[p] = "done"
  /\ pc' = [pc EXCEPT ![p] = "idle"]
  /\ call' = [call EXCEPT ![p] = NoCall]
  /\ result' = [result EXCEPT ![p] = "none"]
  /\ UNCHANGED <<page, now, appStore, showStore>>

\* The clock advances between the transactions that reserve or book: such
\* a transaction lasts less than a tick, so now() inside it is the clock
\* value.  A cancel transaction may wait for its UPDATE while time passes.
Tick ==
  /\ \A p \in Sessions : pc[p] \in {"idle", "done", "cancel_update", "cb_update"}
  /\ now + TickStep <= MaxTime
  /\ now' = now + TickStep
  /\ UNCHANGED <<page, appStore, showStore, pc, call, result>>

\* ------------------------------------------- the seat reservation store
\* A transaction's deletes stay pending until it commits; the rows stay
\* visible to the other sessions and are locked against them.
PendingDeletes(q) == IF pc[q] \in {"rs_check", "rs_insert"} THEN call[q].deleted ELSE {}

LockedByOther(p) == UNION {PendingDeletes(q) : q \in Sessions \ {p}}

\* cleanup_expired_reservations: DELETE ... WHERE expires_at < now()
ExpiredRows(tbl, t) == {r \in tbl : r.expires_at < t}

\* DELETE FROM seat_reservations WHERE show_id = _show_id AND user_id = _user_id
OwnRowsNone(tbl, show, uid) == {}

OwnRows(tbl, show, uid) == {r \in tbl : r.show_id = show /\ r.user_id = uid}

\* EXISTS (SELECT 1 FROM booking_seats bs WHERE bs.show_id = _show_id AND bs.seat_id = s.id)
SeatBooked(bs_tbl, show, seat) == \E bs \in bs_tbl : bs.show_id = show /\ bs.seat_id = seat

\* EXISTS (SELECT 1 FROM seat_reservations sr WHERE sr.show_id = _show_id
\*         AND sr.seat_id = s.id AND sr.expires_at > now())
SeatHeld(tbl, show, seat, t) ==
  \E sr \in tbl : sr.show_id = show /\ sr.seat_id = seat /\ sr.expires_at > t

\* the seats check_seat_availability returns with is_available = false
UnavailableSeats(bs_tbl, sr_tbl, show, seat_ids, t) ==
  {seat \in seat_ids : SeatBooked(bs_tbl, show, seat) \/ SeatHeld(sr_tbl, show, seat, t)}

\* reserve_seats: SELECT COUNT(*) FROM unnest(_seat_ids) AS seat_id WHERE
\*   EXISTS (SELECT 1 FROM booking_seats bs
\*           WHERE bs.show_id = _show_id AND bs.seat_id = seat_id)
\*   OR EXISTS (SELECT 1 FROM seat_reservations sr
\*           WHERE sr.show_id = _show_id AND sr.seat_id = seat_id AND sr.expires_at > now()).
\* Inside each subquery the unqualified seat_id is resolved at the innermost
\* query level that has a column of that name, which is the subquery's own
\* table: the comparison reads bs.seat_id = bs.seat_id (sr.seat_id =
\* sr.seat_id), not a comparison with the unnest alias.
unavailable_countIgnoringBookings(bs_tbl, sr_tbl, show, seat_ids, t) ==
  Cardinality({seat_id \in seat_ids :
    \E sr \in sr_tbl : sr.show_id = show /\ sr.seat_id = sr.seat_id /\ sr.expires_at > t})

unavailable_count(bs_tbl, sr_tbl, show, seat_ids, t) ==
  Cardinality({seat_id \in seat_ids :
    \/ \E bs \in bs_tbl : bs.show_id = show /\ bs.seat_id = bs.seat_id
    \/ \E sr \in sr_tbl : sr.show_id = show /\ sr.seat_id = sr.seat_id /\ sr.expires_at > t})

\* UNIQUE (show_id, seat_id) of seat_reservations
ReservationKeyTakenNever(tbl, show, seat_ids) == FALSE

ReservationKeyTaken(tbl, show, seat_ids) ==
  \E sr \in tbl : sr.show_id = show /\ sr.seat_id \in seat_ids

\* UNIQUE (show_id, seat_id) of booking_seats
BookingSeatKeyTakenNever(tbl, show, seat_ids) == FALSE

BookingSeatKeyTaken(tbl, show, seat_ids) ==
  \E bs \in tbl : bs.show_id = show /\ bs.seat_id \in seat_ids

\* UNIQUE (booking_reference) of bookings
RefTaken(tbl, ref) == \E b \in Rows(tbl) : b.booking_reference = ref

HoldRow(show, seat, uid, t) ==
  [show_id |-> show, seat_id |-> seat, user_id |-> uid, expires_at |-> t + HoldTTL]

\* reserve_seats: PERFORM cleanup_expired_reservations(); DELETE the
\* caller's reservations for the show.  A row locked by another
\* transaction's pending delete makes the statement wait.
reserve_seats(p, show, seat_ids) ==
  /\ pc[p] = "idle"
  /\ SessionUser[p] # NULL
  /\ LET targets == ExpiredRows(seat_reservations, now)
                      \cup OwnRows(seat_reservations, show, SessionUser[p]) IN
       /\ targets \cap LockedByOther(p) = {}
       /\ Proceed(p, "rs_check",
            [op |-> "reserve", show |-> show, seat_ids |-> seat_ids,
             user_id |-> SessionUser[p], txnow |-> now, deleted |-> targets])
  /\ UNCHANGED <<page, now, appStore, showStore>>

\* reserve_seats: RETURN QUERY SELECT false, ...; RETURN ends the function
\* without an error, so the deletes made before the count are committed
AfterRejectionRolledBack(tbl, deleted) == tbl

AfterRejection(tbl, deleted) == tbl \ deleted

\* reserve_seats: SELECT COUNT(*) INTO unavailable_count; a rejection
\* returns normally, so the transaction commits its deletes
ReserveCheck(p) ==
  /\ pc[p] = "rs_check"
  /\ LET c == call[p]
         count == unavailable_count(booking_seats, seat_reservations \ c.deleted,
                                    c.show, c.seat_ids, c.txnow) IN
       IF count > 0
         THEN /\ seat_reservations' = AfterRejection(seat_reservations, c.deleted)
              /\ Finish(p, "rejected")
         ELSE /\ Proceed(p, "rs_insert", c)
              /\ UNCHANGED seat_reservations
  /\ UNCHANGED <<page, now, appStore, booking_seats, bookings>>

\* reserve_seats: INSERT one row per seat and commit.  The insert waits for
\* a transaction that has a row of the same key pending; a committed row of
\* the same key violates UNIQUE (show_id, seat_id) and rolls everything back.
ReserveInsert(p) ==
  /\ pc[p] = "rs_insert"
  /\ LET c == call[p] IN
       /\ ~ReservationKeyTaken(LockedByOther(p), c.show, c.seat_ids)
       /\ IF ReservationKeyTaken(seat_reservations \ c.deleted, c.show, c.seat_ids)
            THEN /\ Finish(p, "duplicate_seat_reservation")
                 /\ UNCHANGED seat_reservations
            ELSE /\ seat_reservations' = (seat_reservations \ c.deleted)
                      \cup {HoldRow(c.show, seat, c.user_id, c.txnow) : seat \in c.seat_ids}
                 /\ Finish(p, "reserved")
  /\ UNCHANGED <<page, now, appStore, booking_seats, bookings>>

\* cleanup_expired_reservations called on its own
cleanup_expired_reservations(p) ==
  /\ pc[p] = "idle"
  /\ ExpiredRows(seat_reservations, now) \cap LockedByOther(p) = {}
  /\ seat_reservations' = seat_reservations \ ExpiredRows(seat_reservations, now)
  /\ Finish(p, "swept")
  /\ UNCHANGED <<page, now, appStore, booking_seats, bookings>>

\* check_seat_availability: the cleanup, then one row (seat_id,
\* is_available) per requested seat; the client keeps the answer
check_seat_availability(p, show, seat_ids) ==
  /\ pc[p] = "idle"
  /\ ExpiredRows(seat_reservations, now) \cap LockedByOther(p) = {}
  /\ seat_reservations' = seat_reservations \ ExpiredRows(seat_reservations, now)
  /\ pc' = [pc EXCEPT ![p] = "done"]
  /\ result' = [result EXCEPT ![p] = "availability"]
  /\ call' = [call EXCEPT ![p] =
       [op |-> "availability", show |-> show, seat_ids |-> seat_ids,
        unavailable |-> UnavailableSeats(booking_seats, seat_reservations', show, seat_ids, now)]]
  /\ UNCHANGED <<page, now, appStore, booking_seats, bookings>>

\* complete_booking: DELETE FROM seat_reservations WHERE show_id = _show_id
\* AND user_id = _user_id
RemovedReservationsOfUser(tbl, show, uid) == {r \in tbl : r.user_id = uid}

RemovedReservations(tbl, show, uid) == {r \in tbl : r.show_id = show /\ r.user_id = uid}

BookingRow(id, uid, show, total, ref) ==
  [id |-> id, user_id |-> uid, show_id |-> show, total_amount |-> total,
   status |-> "confirmed", booking_reference |-> ref,
   cancelled_at |-> NoTime, refund_amount |-> 0]

\* complete_booking: generate the reference, INSERT the booking, INSERT its
\* booking_seats with price base_price * price_multiplier, DELETE the
\* caller's reservations for the show; a unique violation rolls all back
complete_booking(p, show, seat_ids, total, suffix) ==
  /\ pc[p] = "idle"
  /\ SessionUser[p] # NULL
  /\ OwnRows(seat_reservations, show, SessionUser[p]) \cap LockedByOther(p) = {}
  /\ LET new_booking_ref == generate_booking_reference(now, suffix)
         new_booking_id == Len(bookings) + 1 IN
       IF RefTaken(bookings, new_booking_ref)
         THEN /\ Finish(p, "duplicate_booking_reference")
              /\ UNCHANGED showStore
         ELSE IF BookingSeatKeyTaken(booking_seats, show, seat_ids)
         THEN /\ Finish(p, "duplicate_booking_seat")
              /\ UNCHANGED showStore
         ELSE /\ bookings' = Append(bookings,
                   BookingRow(new_booking_id, SessionUser[p], show, total, new_booking_ref))
              /\ booking_seats' = booking_seats \cup
                   {[booking_id |-> new_booking_id, show_id |-> show, seat_id |-> seat,
                     price |-> (BasePrice[show] * PriceMultiplier[seat]) \div 100] : seat \in seat_ids}
              /\ seat_reservations' = seat_reservations
                   \ RemovedReservations(seat_reservations, show, SessionUser[p])
              /\ Finish(p, "ok")
  /\ UNCHANGED <<page, now, appStore>>

\* cancel_booking: SELECT ... INTO booking_record and the two guards
cancel_booking(p, bid, uid) ==
  /\ pc[p] = "idle"
  /\ LET found == OwnedBy(bookings, bid, uid) IN
       IF found = {}
         THEN Finish(p, "booking_not_found")
         ELSE IF \E b \in found : AlreadyCancelled(b)
           THEN Finish(p, "already_cancelled")
           ELSE Proceed(p, "cb_update",
                  [op |-> "cancel_booking", booking_id |-> bid,
                   total_amount |-> bookings[bid].total_amount,
                   show_id |-> bookings[bid].show_id, txnow |-> now])
  /\ UNCHANGED <<page, now, appStore, showStore>>

\* hours_until_show >= 24 gives the full amount, anything else 0
calculated_refundExclusive(total, show_datetime, t) ==
  IF show_datetime - t > RefundWindow THEN total ELSE 0

calculated_refund(total, show_datetime, t) ==
  IF show_datetime - t >= RefundWindow THEN total ELSE 0

\* DELETE FROM booking_seats WHERE booking_id = _booking_id
SeatsOfBookingKept(tbl, bid) == {}

SeatsOfBooking(tbl, bid) == {bs \in tbl : bs.booking_id = bid}

\* cancel_booking: the refund, the UPDATE, and the DELETE of the booking's
\* booking_seats
CancelBookingUpdate(p) ==
  /\ pc[p] = "cb_update"
  /\ LET c == call[p] IN
       /\ bookings' = [bookings EXCEPT ![c.booking_id] =
            [@ EXCEPT !.status = "cancelled", !.cancelled_at = c.txnow,
                      !.refund_amount = calculated_refund(c.total_amount, ShowStart[c.show_id], c.txnow)]]
       /\ booking_seats' = booking_seats \ SeatsOfBooking(booking_seats, c.booking_id)
  /\ Finish(p, "cancelled")
  /\ UNCHANGED <<page, now, appStore, seat_reservations>>

\* date-fns differenceInHours: the difference in milliseconds over the
\* milliseconds of an hour, truncated toward zero (the clock counts minutes)
differenceInHours(dateLeft, dateRight) ==
  IF dateLeft >= dateRight
    THEN (dateLeft - dateRight) \div 60
    ELSE 0 - ((dateRight - dateLeft) \div 60)

\* getRefundInfo of the two booking lists (the same code in both): what the
\* client presents for a booking whose show starts at showDateTime
getRefundInfo(showDateTime, t) ==
  LET hoursUntilShow == differenceInHours(showDateTime, t) IN
    IF hoursUntilShow > 24 THEN [eligible |-> TRUE, percentage |-> 100]
    ELSE IF hoursUntilShow > 0 THEN [eligible |-> TRUE, percentage |-> 50]
    ELSE [eligible |-> FALSE, percentage |-> 0]

\* ---------------------------------------------------------- specification
\* the booking ids a caller may pass: the ids a table can hold (its
\* references are unique) and one that no row has
BookingIds == 1..(Cardinality(RandomSuffixes) + 1)
HoldBookingIds == 1..(Cardinality(HoldSuffixes) + 1)
\* the sessions of signed-in users
SignedIn == {p \in Sessions : SessionUser[p] # NULL}

\* The app_bookings functions, called by concurrent sessions.
Next ==
  \/ \E p \in Clients, sh \in Showings, seats \in SeatInputs, total \in Amounts :
       complete_app_booking(p, sh, seats, total)
  \/ \E p \in Clients, sh \in Showings, seats \in SeatInputs, total \in Amounts,
        gname \in GuestTexts, gemail \in GuestTexts :
       complete_guest_booking(p, sh, seats, total, gname, gemail)
  \/ \E p \in Clients : FinalizeLockAndCheck(p)
  \/ \E p \in Clients : FinalizeInsert(p)
  \/ \E p \in Clients, bid \in BookingIds, uid \in Users :
       cancel_app_booking(p, bid, uid)
  \/ \E p \in Clients : CancelAppUpdate(p)
  \/ \E p \in Clients : Return(p)

Spec == Init /\ [][Next]_vars

\* pages/Booking.tsx handleBookTicket: the signed-in client inserts its
\* row directly (the owner INSERT policy admits it); the seat map it selects
\* from is generated in the browser, so any seats may be selected
handleBookTicket(p, sh, selectedSeats, total, suffix) ==
  /\ pc[p] = "idle"
  /\ SessionUser[p] # NULL
  /\ selectedSeats # {}
  /\ LET ref == bookingRef(now, suffix) IN
       IF AppRefTaken(app_bookings, ref)
         THEN Finish(p, "duplicate_booking_reference") /\ UNCHANGED app_bookings
         ELSE /\ app_bookings' = Append(app_bookings,
                   AppRow(Len(app_bookings) + 1, SessionUser[p], sh, selectedSeats, total,
                          ref, FALSE, NullText, NullText))
              /\ Finish(p, "ok")
  /\ UNCHANGED <<page, now, advisory, showStore>>

\* The app_bookings functions plus the client-side direct insert.
NextClient ==
  \/ Next
  \/ \E p \in Clients, sh \in Showings, selectedSeats \in SUBSET Seats, total \in Amounts,
        suffix \in RandomSuffixes :
       handleBookTicket(p, sh, selectedSeats, total, suffix)

SpecClient == Init /\ [][NextClient]_vars

\* N sessions race for one free seat of one showing: each calls finalize
\* once (complete_app_booking when signed in, or complete_guest_booking) for
\* RaceSeat of RaceShowing.  The table starts empty or with one earlier
\* booking of another seat.
RaceShowing == S1
RaceSeat == "A1"

InitRace ==
  /\ now = 0
  /\ app_bookings \in {<<>>} \cup
       {<<AppRow(1, "u1", RaceShowing, Seats \ {RaceSeat}, 2000,
                 generate_booking_reference(0, suffix), FALSE, NullText, NullText)>> :
          suffix \in RandomSuffixes}
  /\ advisory = {}
  /\ pc = [p \in Sessions |-> "idle"]
  /\ call = [p \in Sessions |-> NoCall]
  /\ result = [p \in Sessions |-> "none"]
  /\ page = [p \in Sessions |-> NoPage]
  /\ seat_reservations = {}
  /\ booking_seats = {}
  /\ bookings = <<>>

NextRace ==
  \/ \E p \in SignedIn :
       complete_app_booking(p, RaceShowing, JsonArray({RaceSeat}), 2000)
  \/ \E p \in Sessions :
       complete_guest_booking(p, RaceShowing, JsonArray({RaceSeat}), 2000, Text(<<"A">>), Text(<<"A">>))
  \/ \E p \in Sessions : FinalizeLockAndCheck(p)
  \/ \E p \in Sessions : FinalizeInsert(p)

SpecRace == InitRace /\ [][NextRace]_vars

\* Finalize under fair scheduling: every session calls finalize for RaceSeat
\* of either showing again and again.  A transaction that can run does run
\* (weak fairness of the steps after the lock), and the lock manager grants
\* a released lock to the sessions waiting for it in turn, so a session that
\* finds the lock free again and again gets it (strong fairness).
NextFair ==
  \/ \E p \in SignedIn, sh \in Showings :
       complete_app_booking(p, sh, JsonArray({RaceSeat}), 2000)
  \/ \E p \in Sessions, sh \in Showings :
       complete_guest_booking(p, sh, JsonArray({RaceSeat}), 2000, Text(<<"A">>), Text(<<"A">>))
  \/ \E p \in Sessions : FinalizeLockAndCheck(p)
  \/ \E p \in Sessions : FinalizeInsert(p)
  \/ \E p \in Sessions : Return(p)

SpecFair ==
  /\ Init
  /\ [][NextFair]_vars
  /\ \A p \in Sessions : SF_vars(FinalizeLockAndCheck(p)) /\ WF_vars(FinalizeInsert(p))

\* The seat reservation store, called by concurrent sessions as time passes.
NextHold ==
  \/ \E p \in HoldClients, show \in HoldShows, seat_ids \in SUBSET Seats : reserve_seats(p, show, seat_ids)
  \/ \E p \in HoldClients : ReserveCheck(p)
  \/ \E p \in HoldClients : ReserveInsert(p)
  \/ \E p \in HoldClients : cleanup_expired_reservations(p)
  \/ \E p \in HoldClients, show \in HoldShows : check_seat_availability(p, show, Seats)
  \/ \E p \in HoldClients, show \in HoldShows, seat_ids \in SUBSET Seats, total \in Amounts,
        suffix \in HoldSuffixes :
       complete_booking(p, show, seat_ids, total, suffix)
  \/ \E p \in HoldClients, bid \in HoldBookingIds, uid \in Users : cancel_booking(p, bid, uid)
  \/ \E p \in HoldClients : CancelBookingUpdate(p)
  \/ \E p \in HoldClients : Return(p)
  \/ Tick

SpecHold == Init /\ [][NextHold]_vars

\* Cancellation: the stores hold bookings made at time 0 (an owned and a
\* guest booking in app_bookings; one booking per show in bookings), and
\* concurrent sessions cancel them as time passes.
CancelClients == {"c1", "c2"}
CancelTotals == {0, 2, 2000}
CancelCallers == Users \cup {NULL}

InitCancel ==
  /\ now = 0
  /\ \E total \in CancelTotals :
       /\ app_bookings =
            <<AppRow(1, "u1", S1, {"A1"}, total,
                     generate_booking_reference(0, Digits1), FALSE, NullText, NullText),
              AppRow(2, NULL, S1, {"A2"}, total,
                     generate_booking_reference(0, Digits2), TRUE, Text(<<"A">>), Text(<<"A">>))>>
       /\ bookings =
            <<BookingRow(1, "u1", "sh1", total, generate_booking_reference(0, Digits1)),
              BookingRow(2, "u2", "sh2", total, generate_booking_reference(0, Digits2))>>
  /\ booking_seats =
       {[booking_id |-> 1, show_id |-> "sh1", seat_id |-> "A1",
         price |-> (BasePrice["sh1"] * PriceMultiplier["A1"]) \div 100],
        [booking_id |-> 2, show_id |-> "sh2", seat_id |-> "A2",
         price |-> (BasePrice["sh2"] * PriceMultiplier["A2"]) \div 100]}
  /\ seat_reservations = {}
  /\ advisory = {}
  /\ pc = [p \in Sessions |-> "idle"]
  /\ call = [p \in Sessions |-> NoCall]
  /\ result = [p \in Sessions |-> "none"]
  /\ page = [p \in Sessions |-> NoPage]

NextCancel ==
  \/ \E p \in CancelClients, bid \in BookingIds, uid \in CancelCallers : cancel_app_booking(p, bid, uid)
  \/ \E p \in CancelClients : CancelAppUpdate(p)
  \/ \E p \in CancelClients, bid \in BookingIds, uid \in CancelCallers : cancel_booking(p, bid, uid)
  \/ \E p \in CancelClients : CancelBookingUpdate(p)
  \/ \E p \in CancelClients : Return(p)
  \/ Tick

SpecCancel == InitCancel /\ [][NextCancel]_vars

\* Retries: signed-in clients repeat finalize calls of both stores for
\* seats of one showing, and cancel bookings in between.
RetryClients == {"c1", "c2"}
RetrySeatLists == {{"A1"}, {"A1", "A2"}}

NextRetry ==
  \/ \E p \in RetryClients, seats \in RetrySeatLists, total \in Amounts :
       complete_app_booking(p, RaceShowing, JsonArray(seats), total)
  \/ \E p \in RetryClients : FinalizeLockAndCheck(p)
  \/ \E p \in RetryClients : FinalizeInsert(p)
  \/ \E p \in RetryClients, seat_ids \in RetrySeatLists, total \in Amounts, suffix \in RandomSuffixes :
       complete_booking(p, "sh1", seat_ids, total, suffix)
  \/ \E p \in RetryClients, bid \in BookingIds : cancel_app_booking(p, bid, SessionUser[p])
  \/ \E p \in RetryClients : CancelAppUpdate(p)
  \/ \E p \in RetryClients, bid \in BookingIds : cancel_booking(p, bid, SessionUser[p])
  \/ \E p \in RetryClients : CancelBookingUpdate(p)
  \/ \E p \in RetryClients : Return(p)

SpecRetry == Init /\ [][NextRetry]_vars

\* calculateTotal: the sum of show.base_price * seat.price_multiplier over
\* the selected seats
RECURSIVE calculateTotal(_, _)
calculateTotal(show, selectedSeats) ==
  IF selectedSeats = {} THEN 0
  ELSE LET seat == CHOOSE x \in selectedSeats : TRUE IN
         (BasePrice[show] * PriceMultiplier[seat]) \div 100
           + calculateTotal(show, selectedSeats \ {seat})

\* handleProceedToPayment, first request: the signed-in client inserts the
\* bookings row with a reference it generated itself; the request is its
\* own transaction
handleProceedToPayment(p, show, selectedSeats, suffix) ==
  /\ pc[p] = "idle"
  /\ SessionUser[p] # NULL
  /\ selectedSeats # {}
  /\ LET ref == bookingRef(now, suffix) IN
       IF RefTaken(bookings, ref)
         THEN Finish(p, "duplicate_booking_reference") /\ UNCHANGED bookings
         ELSE /\ bookings' = Append(bookings,
                   BookingRow(Len(bookings) + 1, SessionUser[p], show,
                              calculateTotal(show, selectedSeats), ref))
              /\ Proceed(p, "pp_seats",
                   [op |-> "proceed_to_payment", booking_id |-> Len(bookings) + 1,
                    show |-> show, seats |-> selectedSeats])
  /\ UNCHANGED <<page, now, appStore, seat_reservations, booking_seats>>

\* handleProceedToPayment, second request: one INSERT of all booking_seats
\* rows; on an error the handler shows it and returns
InsertBookingSeats(p) ==
  /\ pc[p] = "pp_seats"
  /\ LET c == call[p] IN
       IF BookingSeatKeyTaken(booking_seats, c.show, c.seats)
         THEN /\ Finish(p, "duplicate_booking_seat")
              /\ UNCHANGED booking_seats
         ELSE /\ booking_seats' = booking_seats \cup
                   {[booking_id |-> c.booking_id, show_id |-> c.show, seat_id |-> seat,
                     price |-> (BasePrice[c.show] * PriceMultiplier[seat]) \div 100] : seat \in c.seats}
              /\ Finish(p, "ok")
  /\ UNCHANGED <<page, now, appStore, seat_reservations, bookings>>

\* Booking flows of the bookings store: signed-in clients book seats of one
\* show through complete_booking and through the two requests of
\* handleProceedToPayment.
NextPayment ==
  \/ \E p \in HoldClients, selectedSeats \in RetrySeatLists, suffix \in RandomSuffixes :
       handleProceedToPayment(p, "sh1", selectedSeats, suffix)
  \/ \E p \in HoldClients : InsertBookingSeats(p)
  \/ \E p \in HoldClients, seat_ids \in RetrySeatLists, total \in Amounts, suffix \in RandomSuffixes :
       complete_booking(p, "sh1", seat_ids, total, suffix)
  \/ \E p \in HoldClients : Return(p)

SpecPayment == Init /\ [][NextPayment]_vars

\* Holds on two shows: signed-in clients reserve seats of both shows and
\* complete bookings, at one instant.
NextRelease ==
  \/ \E p \in HoldClients, show \in Shows, seat_ids \in RetrySeatLists : reserve_seats(p, show, seat_ids)
  \/ \E p \in HoldClients : ReserveCheck(p)
  \/ \E p \in HoldClients : ReserveInsert(p)
  \/ \E p \in HoldClients, show \in Shows, seat_ids \in RetrySeatLists, total \in Amounts,
        suffix \in RandomSuffixes :
       complete_booking(p, show, seat_ids, total, suffix)
  \/ \E p \in HoldClients : Return(p)

SpecRelease == Init /\ [][NextRelease]_vars

\* Independent showings: S1 and one showing that differs from it in each of
\* show_time, show_date, theater_name and tmdb_movie_id.  Sessions finalize
\* and cancel bookings of the same seat id in these showings.
S3 == [S1 EXCEPT !.show_date = <<50>>]
S4 == [S1 EXCEPT !.theater_name = <<68>>]
S5 == [S1 EXCEPT !.tmdb_movie_id = <<56>>]
IndepShowings == {S1, S2, S3, S4, S5}

NextShowings ==
  \/ \E p \in Clients, sh \in IndepShowings, total \in Amounts :
       complete_app_booking(p, sh, JsonArray({RaceSeat}), total)
  \/ \E p \in Clients, sh \in IndepShowings, total \in Amounts :
       complete_guest_booking(p, sh, JsonArray({RaceSeat}), total, Text(<<"A">>), Text(<<"A">>))
  \/ \E p \in Clients : FinalizeLockAndCheck(p)
  \/ \E p \in Clients : FinalizeInsert(p)
  \/ \E p \in Clients, bid \in BookingIds : cancel_app_booking(p, bid, SessionUser[p])
  \/ \E p \in Clients : CancelAppUpdate(p)
  \/ \E p \in Clients : Return(p)

SpecShowings == Init /\ [][NextShowings]_vars

\* Amounts of any sign: _total_amount is a numeric parameter and total_amount
\* a numeric NOT NULL column without CHECK constraint.  Sessions finalize
\* bookings of one seat with such amounts in both stores and cancel them.
SignedTotals == {2000, -2000}

NextRefund ==
  \/ \E p \in Clients, total \in SignedTotals :
       complete_app_booking(p, RaceShowing, JsonArray({RaceSeat}), total)
  \/ \E p \in Clients, total \in SignedTotals :
       complete_guest_booking(p, RaceShowing, JsonArray({RaceSeat}), total, Text(<<"A">>), Text(<<"A">>))
  \/ \E p \in Clients : FinalizeLockAndCheck(p)
  \/ \E p \in Clients : FinalizeInsert(p)
  \/ \E p \in Clients, total \in SignedTotals, suffix \in RandomSuffixes :
       complete_booking(p, "sh1", {RaceSeat}, total, suffix)
  \/ \E p \in Clients, bid \in BookingIds : cancel_app_booking(p, bid, SessionUser[p])
  \/ \E p \in Clients : CancelAppUpdate(p)
  \/ \E p \in Clients, bid \in BookingIds : cancel_booking(p, bid, SessionUser[p])
  \/ \E p \in Clients : CancelBookingUpdate(p)
  \/ \E p \in Clients : Return(p)

SpecRefund == Init /\ [][NextRefund]_vars

\* ------------------------------------------------ the booking page (RPC)
\* The seats the page shows: the id of the seats row and the label
\* `${row_label}${seat_number}` that the page sends as the seat's id.
ClientSeats == {[id |-> "seat-1", label |-> "A1"], [id |-> "seat-2", label |-> "A2"]}
BookingModes == {"login", "guest"}

\* seatsData: the ids sent in _seats
seatsData(selected) == {s.label : s \in selected}

\* fetchBookedSeats: the ids get_app_booked_seat_ids returns, or [] when
\* the request fails
fetchBookedSeats(info, ok) ==
  IF ok THEN get_app_booked_seat_ids(app_bookings, info) ELSE {}

\* the isBooked flag refreshSeats computes for a seat
isBooked(seat, bookedSeatIds) ==
  seat.id \in bookedSeatIds \/ seat.label \in bookedSeatIds

\* the filter refreshSeats applies to selectedSeats
NotBookedById(s, bookedSeatIds) == s.id \notin bookedSeatIds

NotBooked(s, bookedSeatIds) ==
  s.id \notin bookedSeatIds /\ s.label \notin bookedSeatIds

\* handleSeatClick: toggles a seat that is not shown as booked
handleSeatClick(p, seat) ==
  /\ seat \notin page[p].isBooked
  /\ page' = [page EXCEPT ![p].selectedSeats =
                IF seat \in @ THEN @ \ {seat} ELSE @ \cup {seat}]
  /\ UNCHANGED <<now, appStore, showStore, pc, call, result>>

\* handleBookTicket of the page, up to the rpc it awaits: the button is
\* disabled while a booking is in progress, login mode needs a session,
\* and the call carries the selected seats and calculateTotal()
BookingHandleBookTicket(p, bookingMode) ==
  /\ page[p].selectedSeats # {}
  /\ bookingMode = "login" => SessionUser[p] # NULL
  /\ LET ids == seatsData(page[p].selectedSeats)
         total == calculateTotal("sh1", ids) IN
       IF bookingMode = "guest"
         THEN complete_guest_booking(p, RaceShowing, JsonArray(ids), total,
                                     Text(<<"A">>), Text(<<"A">>))
         ELSE complete_app_booking(p, RaceShowing, JsonArray(ids), total)

\* handleBookTicket, after the rpc answered: on seats_unavailable it
\* awaits refreshSeats() and returns; on success it navigates to the
\* confirmation and the page is left; on any other error it returns
HandleBookingError(p) ==
  /\ pc[p] = "done"
  /\ IF result[p] = "seats_unavailable"
       THEN /\ pc' = [pc EXCEPT ![p] = "refresh"]
            /\ UNCHANGED page
       ELSE /\ pc' = [pc EXCEPT ![p] = "idle"]
            /\ page' = [page EXCEPT ![p].selectedSeats =
                          IF result[p] = "ok" THEN {} ELSE @]
  /\ result' = [result EXCEPT ![p] = "none"]
  /\ UNCHANGED <<now, appStore, showStore, call>>

\* refreshSeats: awaited by handleBookTicket, run by the 30 s interval
\* and by the refresh button; it re-queries the booked seats, marks them
\* and removes them from the selection
refreshSeats(p, ok) ==
  /\ LET bookedSeatIds == fetchBookedSeats(RaceShowing, ok) IN
       page' = [page EXCEPT ![p] =
                 [isBooked |-> {seat \in ClientSeats : isBooked(seat, bookedSeatIds)},
                  selectedSeats |-> {s \in @.selectedSeats : NotBooked(s, bookedSeatIds)}]]
  /\ pc' = [pc EXCEPT ![p] = IF @ = "refresh" THEN "idle" ELSE @]
  /\ UNCHANGED <<now, appStore, showStore, call, result>>

NextPage ==
  \/ \E p \in Clients, seat \in ClientSeats : handleSeatClick(p, seat)
  \/ \E p \in Clients, bookingMode \in BookingModes : BookingHandleBookTicket(p, bookingMode)
  \/ \E p \in Clients : FinalizeLockAndCheck(p)
  \/ \E p \in Clients : FinalizeInsert(p)
  \/ \E p \in Clients : HandleBookingError(p)
  \/ \E p \in Clients, ok \in BOOLEAN : refreshSeats(p, ok)

SpecPage == Init /\ [][NextPage]_vars

\* Validation: a signed-in and an anonymous session call both finalize
\* functions for one showing with every kind of seat list and guest text.
NextValidate ==
  \/ \E p \in Clients, seats \in SeatInputs, total \in Amounts :
       complete_app_booking(p, RaceShowing, seats, total)
  \/ \E p \in Clients, seats \in SeatInputs, total \in Amounts,
        gname \in GuestTexts, gemail \in GuestTexts :
       complete_guest_booking(p, RaceShowing, seats, total, gname, gemail)
  \/ \E p \in Clients : FinalizeLockAndCheck(p)
  \/ \E p \in Clients : FinalizeInsert(p)
  \/ \E p \in Clients : Return(p)

SpecValidate == Init /\ [][NextValidate]_vars

\* lookup_booking_by_reference: WHERE ab.booking_reference =
\* upper(_booking_reference); the client keeps the rows returned
LookupKeyAsGiven(text) == text

LookupKey(text) == UpperRef(text)

lookup_booking_by_reference(p, text) ==
  /\ pc[p] = "idle"
  /\ pc' = [pc EXCEPT ![p] = "done"]
  /\ result' = [result EXCEPT ![p] = "lookup"]
  /\ call' = [call EXCEPT ![p] =
       [op |-> "lookup", text |-> text,
        rows |-> {ab.id : ab \in {r \in Rows(app_bookings) : r.booking_reference = LookupKey(text)}}]]
  /\ UNCHANGED <<page, now, appStore, showStore>>

\* Lookup: bookings of one showing are created through the functions of
\* both stores and through the client-side insert, cancelled, and looked up by reference
\* texts in upper, lower and mixed case and by a text no booking carries.
LookupTexts ==
  UNION {{r, LowerRef(r), [r EXCEPT !.prefix = lower(@)]} :
           r \in {generate_booking_reference(0, suffix) : suffix \in RandomSuffixes}}
    \cup {generate_booking_reference(RefundWindow, Digits1)}

NextLookup ==
  \/ \E p \in Clients, seats \in RetrySeatLists, total \in Amounts :
       complete_app_booking(p, RaceShowing, JsonArray(seats), total)
  \/ \E p \in Clients, seats \in RetrySeatLists, total \in Amounts :
       complete_guest_booking(p, RaceShowing, JsonArray(seats), total, Text(<<"A">>), Text(<<"A">>))
  \/ \E p \in Clients : FinalizeLockAndCheck(p)
  \/ \E p \in Clients : FinalizeInsert(p)
  \/ \E p \in Clients, seats \in RetrySeatLists, total \in Amounts, suffix \in RandomSuffixes :
       handleBookTicket(p, RaceShowing, seats, total, suffix)
  \/ \E p \in Clients, total \in Amounts, suffix \in RandomSuffixes :
       complete_booking(p, "sh1", {RaceSeat}, total, suffix)
  \/ \E p \in Clients, bid \in BookingIds : cancel_app_booking(p, bid, SessionUser[p])
  \/ \E p \in Clients : CancelAppUpdate(p)
  \/ \E p \in Clients, text \in LookupTexts : lookup_booking_by_reference(p, text)
  \/ \E p \in Clients : Return(p)

SpecLookup == Init /\ [][NextLookup]_vars

\* ----------------------------------------------------------------- claims
ActiveRowsWith(sh, seat) ==
  {i \in 1..Len(app_bookings) :
     /\ SameShowing(app_bookings[i], sh)
     /\ app_bookings[i].status # "cancelled"
     /\ seat \in app_bookings[i].seats}

\* C1: for each showing no seat id appears in more than one app_bookings
\* row whose status is not 'cancelled', in every state reachable by
\* complete_app_booking, complete_guest_booking and cancel_app_booking.
NoDoubleSale ==
  \A i, j \in 1..Len(app_bookings) :
    (/\ i # j
     /\ app_bookings[i].status # "cancelled"
     /\ app_bookings[j].status # "cancelled"
     /\ ShowingOf(app_bookings[i]) = ShowingOf(app_bookings[j]))
    => app_bookings[i].seats \cap app_bookings[j].seats = {}

\* C1 witness: a seat was sold, cancelled and sold again, so a cancelled and
\* an active row of one showing share the seat
SeatResold ==
  \E i, j \in 1..Len(app_bookings) :
    /\ app_bookings[i].status = "cancelled"
    /\ app_bookings[j].status # "cancelled"
    /\ ShowingOf(app_bookings[i]) = ShowingOf(app_bookings[j])
    /\ app_bookings[i].seats \cap app_bookings[j].seats # {}

\* C2: when N >= 2 concurrent finalize calls each request the same single
\* free seat, exactly one call creates a booking and each of the other
\* N-1 calls fails with seats_unavailable.
RaceHasOneWinner ==
  (\A p \in Sessions : pc[p] = "done") =>
    \E w \in Sessions :
      /\ result[w] = "ok"
      /\ \A q \in Sessions \ {w} : result[q] = "seats_unavailable"

\* C3: the no-double-sale invariant still holds when a writer bypasses
\* finalize with a direct insert into app_bookings: the store rejects a
\* second active booking of the same (showing, seat).
StoreRejectsSecondActiveBooking ==
  \A sh \in Showings, seat \in Seats : Cardinality(ActiveRowsWith(sh, seat)) <= 1

\* C5: if at least one seat of a finalize request is already claimed by a
\* non-cancelled booking of the showing, finalize fails with
\* seats_unavailable and app_bookings is unchanged.
ConflictAbortsWholeRequest ==
  [][\A p \in Sessions :
       (/\ pc[p] = "insert"
        /\ pc'[p] = "done"
        /\ \E seat \in call[p].seats : ActiveRowsWith(call[p].showing, seat) # {})
       => (result'[p] = "seats_unavailable" /\ app_bookings' = app_bookings)]_vars

\* C5 witness: the conflict query has flagged a request of which one seat
\* is claimed and another is still free
PartialConflictDetected ==
  \E p \in Sessions :
    /\ pc[p] = "insert"
    /\ call[p].v_conflict
    /\ \E seat \in call[p].seats : ActiveRowsWith(call[p].showing, seat) # {}
    /\ \E seat \in call[p].seats : ActiveRowsWith(call[p].showing, seat) = {}

\* C6: at most one unexpired hold (expires_at > now) exists for each
\* (showing, seat) pair.
OneActiveHoldPerSeat ==
  \A show \in Shows, seat \in Seats :
    Cardinality({sr \in seat_reservations :
                   sr.show_id = show /\ sr.seat_id = seat /\ sr.expires_at > now}) <= 1

\* C6 witness: two sessions passed the availability check for the same
\* seat; the first insert holds it and the second was refused
SecondHoldRefused ==
  \E p \in Sessions :
    /\ result[p] = "duplicate_seat_reservation"
    /\ \E sr \in seat_reservations : sr.expires_at > now /\ sr.user_id # SessionUser[p]

\* a seat of a show that someone other than uid claims: a booking_seats
\* row, or an unexpired hold of another holder
ClaimedByAnother(show, seat, uid) ==
  \/ \E bs \in booking_seats : bs.show_id = show /\ bs.seat_id = seat
  \/ \E sr \in seat_reservations :
       /\ sr.show_id = show /\ sr.seat_id = seat
       /\ sr.user_id # uid /\ sr.expires_at > now

\* C4: a finalize that requests a seat on which another holder has an
\* unexpired hold creates no booking.
HeldSeatBlocksFinalize ==
  [][\A bs \in booking_seats' \ booking_seats :
       ~\E sr \in seat_reservations :
          /\ sr.show_id = bs.show_id /\ sr.seat_id = bs.seat_id
          /\ sr.expires_at > now
          /\ sr.user_id # bookings'[bs.booking_id].user_id]_vars

\* C7: if any requested seat is referenced by a booking of the showing or
\* by another holder's unexpired hold, reserve_seats is rejected and no
\* hold row is inserted for any of the requested seats.
ReserveAllOrNothing ==
  [][\A p \in Sessions :
       (/\ pc[p] = "rs_check"
        /\ pc'[p] # "rs_check"
        /\ \E seat \in call[p].seat_ids : ClaimedByAnother(call[p].show, seat, call[p].user_id))
       => (/\ result'[p] = "rejected"
           /\ seat_reservations' \subseteq seat_reservations)]_vars

\* C7 witness: the availability check runs on a request of which one seat
\* is claimed by someone else and another is free
PartlyClaimedRequest ==
  \E p \in Sessions :
    /\ pc[p] = "rs_check"
    /\ \E seat \in call[p].seat_ids : ClaimedByAnother(call[p].show, seat, call[p].user_id)
    /\ \E seat \in call[p].seat_ids :
         /\ ~ClaimedByAnother(call[p].show, seat, call[p].user_id)
         /\ ~\E sr \in seat_reservations : sr.show_id = call[p].show /\ sr.seat_id = seat

\* C8: once another holder's hold on a seat is no longer active (now is at
\* or past its expires_at) and the seat is not booked, reserve_seats for
\* the seat is accepted and the caller becomes its holder.
ExpiredHoldGivesWay ==
  [][\A p \in Sessions :
       (/\ pc[p] \in {"rs_check", "rs_insert"}
        /\ pc'[p] = "done"
        /\ \E sr \in seat_reservations :
             /\ sr.show_id = call[p].show /\ sr.seat_id \in call[p].seat_ids
             /\ sr.user_id # call[p].user_id /\ sr.expires_at <= now
        /\ \A seat \in call[p].seat_ids : ~ClaimedByAnother(call[p].show, seat, call[p].user_id))
       => (/\ result'[p] = "reserved"
           /\ \A seat \in call[p].seat_ids :
                \E sr \in seat_reservations' :
                  sr.show_id = call[p].show /\ sr.seat_id = seat /\ sr.user_id = call[p].user_id)]_vars

\* a seat of a show that a non-cancelled booking references
ClaimedByActiveBooking(b_tbl, bs_tbl, show, seat) ==
  \E bs \in bs_tbl :
    /\ bs.show_id = show /\ bs.seat_id = seat
    /\ b_tbl[bs.booking_id].status # "cancelled"

\* a seat of a show under a hold with expires_at > now
UnderActiveHold(sr_tbl, show, seat, t) ==
  \E sr \in sr_tbl : sr.show_id = show /\ sr.seat_id = seat /\ sr.expires_at > t

SelfConflictExempt ==
  [][\A p \in Sessions :
       /\ (pc[p] = "rs_check" /\ result'[p] = "rejected")
            => \E seat \in Seats : ClaimedByAnother(call[p].show, seat, call[p].user_id)
       /\ (pc[p] = "rs_insert" /\ result'[p] = "reserved")
            => {sr.seat_id : sr \in {r \in seat_reservations' :
                                       r.show_id = call[p].show /\ r.user_id = call[p].user_id}}
                 = call[p].seat_ids]_vars

\* C10 witness: the availability check has passed for a caller who
\* requests a seat they already hold and drops another they held
ReacquirePassedCheck ==
  \E p \in Sessions :
    /\ pc[p] = "rs_insert"
    /\ \E r \in call[p].deleted :
         /\ r.user_id = call[p].user_id /\ r.show_id = call[p].show
         /\ r.expires_at > now /\ r.seat_id \in call[p].seat_ids
    /\ \E r \in call[p].deleted :
         /\ r.user_id = call[p].user_id /\ r.show_id = call[p].show
         /\ r.expires_at > now /\ r.seat_id \notin call[p].seat_ids

\* C11: a cancel call on a booking that is already cancelled returns
\* 'already cancelled' and leaves the booking's refund_amount, cancelled_at
\* and status (and every other stored row) as they were.
CancelledStaysAsFirstSet ==
  [][\A p \in Sessions, bid \in BookingIds, uid \in CancelCallers :
       /\ (/\ bid <= Len(app_bookings)
            /\ app_bookings[bid].user_id = uid
            /\ app_bookings[bid].status = "cancelled"
            /\ cancel_app_booking(p, bid, uid))
           => (result'[p] = "already_cancelled" /\ pc'[p] = "done" /\ app_bookings' = app_bookings)
       /\ (/\ bid <= Len(bookings)
            /\ bookings[bid].user_id = uid
            /\ bookings[bid].status = "cancelled"
            /\ cancel_booking(p, bid, uid))
           => (/\ result'[p] = "already_cancelled" /\ pc'[p] = "done"
               /\ bookings' = bookings /\ booking_seats' = booking_seats)]_vars

\* C11 witness: a second cancel of a booking was turned away in each store
SecondCancelRefused ==
  \E p, q \in Sessions :
    /\ result[p] = "already_cancelled" /\ result[q] = "already_cancelled"
    /\ p # q
    /\ \E ab \in Rows(app_bookings) : ab.status = "cancelled"
    /\ \E b \in Rows(bookings) : b.status = "cancelled" /\ b.cancelled_at < now

\* C12: a cancel call made by a session whose signed-in user is not the
\* booking's owner fails with 'booking not found' and changes nothing: the
\* booking stays as it was and its seats stay claimed.
OnlyOwnerCancels ==
  [][\A p \in Sessions, bid \in BookingIds, uid \in CancelCallers :
       /\ (/\ bid <= Len(app_bookings)
            /\ app_bookings[bid].user_id # SessionUser[p]
            /\ cancel_app_booking(p, bid, uid))
           => (result'[p] = "booking_not_found" /\ pc'[p] = "done" /\ app_bookings' = app_bookings)
       /\ (/\ bid <= Len(bookings)
            /\ bookings[bid].user_id # SessionUser[p]
            /\ cancel_booking(p, bid, uid))
           => (/\ result'[p] = "booking_not_found" /\ pc'[p] = "done"
               /\ bookings' = bookings /\ booking_seats' = booking_seats)]_vars

\* a cancelled booking of the showing has one of the seats
ReleasedSeatAmong(sh, seats) ==
  \E ab \in Rows(app_bookings) :
    SameShowing(ab, sh) /\ ab.status = "cancelled" /\ ab.seats \cap seats # {}

\* C13: after a successful cancel the booking's seats stop counting as
\* taken: the availability view lists no seat that only cancelled bookings
\* have, and a later finalize requesting such seats, none of them claimed
\* by a non-cancelled booking, finds no conflict and succeeds.
CancelReleasesSeats ==
  [][/\ \A sh \in Showings, seat \in Seats :
          ActiveRowsWith(sh, seat) = {} => seat \notin get_app_booked_seat_ids(app_bookings, sh)
     /\ \A p \in Sessions :
          /\ (/\ pc[p] = "lock" /\ pc'[p] = "insert"
               /\ ReleasedSeatAmong(call[p].showing, call[p].seats)
               /\ \A seat \in call[p].seats : ActiveRowsWith(call[p].showing, seat) = {})
              => ~call'[p].v_conflict
          /\ (/\ pc[p] = "insert" /\ pc'[p] = "done"
               /\ ~call[p].v_conflict
               /\ ReleasedSeatAmong(call[p].showing, call[p].seats))
              => result'[p] = "ok"]_vars

\* the statuses of a table's rows move (none) -> confirmed -> cancelled
StatusStep(old, new) ==
  /\ Len(new) >= Len(old)
  /\ \A i \in 1..Len(new) :
       IF i > Len(old)
         THEN new[i].status = "confirmed"
         ELSE /\ new[i].status \in {old[i].status, "cancelled"}
              /\ old[i].status = "cancelled" => new[i].status = "cancelled"

BookingsImmutable ==
  [][/\ Len(app_bookings') >= Len(app_bookings)
     /\ \A i \in 1..Len(app_bookings) :
          app_bookings'[i] = [app_bookings[i] EXCEPT
                                !.status = app_bookings'[i].status,
                                !.cancelled_at = app_bookings'[i].cancelled_at,
                                !.refund_amount = app_bookings'[i].refund_amount]
     /\ Len(bookings') >= Len(bookings)
     /\ \A i \in 1..Len(bookings) :
          /\ bookings'[i] = [bookings[i] EXCEPT
                               !.status = bookings'[i].status,
                               !.cancelled_at = bookings'[i].cancelled_at,
                               !.refund_amount = bookings'[i].refund_amount]
          /\ {bs \in booking_seats' : bs.booking_id = i}
               = {bs \in booking_seats : bs.booking_id = i}]_vars

\* C16: every cancel_booking that reaches its UPDATE succeeds and records
\* the full total_amount as refund when the show starts 24 hours or more
\* after the recorded moment of cancellation (boundary included), and 0
\* otherwise, also when the show has already started.
TimeWindowRefund ==
  [][\A p \in Sessions :
       (pc[p] = "cb_update" /\ pc'[p] # "cb_update")
       => LET b == bookings'[call[p].booking_id] IN
            /\ result'[p] = "cancelled"
            /\ b.status = "cancelled"
            /\ b.cancelled_at \in 0..now
            /\ b.refund_amount =
                 IF ShowStart[b.show_id] - b.cancelled_at >= 1440 THEN b.total_amount ELSE 0]_vars

\* C16 witness: one booking cancelled exactly 24 hours before its show
\* with the full refund, another cancelled after its show began with none
RefundAtBoundaryAndAfterStart ==
  \E i, j \in 1..Len(bookings) :
    /\ bookings[i].status = "cancelled"
    /\ ShowStart[bookings[i].show_id] - bookings[i].cancelled_at = 1440
    /\ bookings[i].total_amount > 0
    /\ bookings[i].refund_amount = bookings[i].total_amount
    /\ bookings[j].status = "cancelled"
    /\ ShowStart[bookings[j].show_id] < bookings[j].cancelled_at
    /\ bookings[j].refund_amount = 0

\* C17: every cancel_app_booking that reaches its UPDATE succeeds and sets
\* refund_amount to exactly half of total_amount, whatever the time left
\* until the showing (also after it has started).
FlatHalfRefund ==
  [][\A p \in Sessions :
       (pc[p] = "cancel_update" /\ pc'[p] # "cancel_update")
       => LET ab == app_bookings'[call[p].booking_id] IN
            /\ result'[p] = "cancelled"
            /\ ab.status = "cancelled"
            /\ ab.total_amount = app_bookings[call[p].booking_id].total_amount
            /\ 2 * ab.refund_amount = ab.total_amount]_vars

\* C17 witness: a booking with a positive total cancelled after its
\* showing began carries half its total as refund
HalfRefundAfterStart ==
  \E ab \in Rows(app_bookings) :
    /\ ab.status = "cancelled"
    /\ ab.cancelled_at > AppShowStart(ShowingOf(ab))
    /\ ab.total_amount > 0
    /\ 2 * ab.refund_amount = ab.total_amount

\* the seats of a booking's line-items
LineItemSeats(bid) == {bs.seat_id : bs \in {r \in booking_seats : r.booking_id = bid}}

ReferencesUnique ==
  /\ \A i, j \in 1..Len(app_bookings) :
       i # j => app_bookings[i].booking_reference # app_bookings[j].booking_reference
  /\ \A i, j \in 1..Len(bookings) :
       i # j => bookings[i].booking_reference # bookings[j].booking_reference
  /\ \A i \in 1..Len(app_bookings), j \in 1..Len(bookings) :
       app_bookings[i].booking_reference # bookings[j].booking_reference

\* C20: for every stored booking reference c, a lookup by lower(c) and a
\* lookup by upper(c) both return exactly one booking, the one whose
\* reference is c.
LookupIgnoresCase ==
  [][\A p \in Sessions :
       (pc[p] = "idle" /\ result'[p] = "lookup")
       => \A i \in 1..Len(app_bookings) :
            call'[p].text \in {LowerRef(app_bookings[i].booking_reference),
                               UpperRef(app_bookings[i].booking_reference)}
            => call'[p].rows = {i}]_vars

\* C20 witness: a lookup by the lower-case text of a stored reference has
\* returned its booking
LowerCaseLookupFound ==
  \E p \in Sessions :
    /\ result[p] = "lookup"
    /\ \E i \in 1..Len(app_bookings) :
         /\ call[p].text = LowerRef(app_bookings[i].booking_reference)
         /\ call[p].text # app_bookings[i].booking_reference
         /\ call[p].rows = {i}


\* the bookings of both stores whose reference is ref, compared without
\* regard to case
BookingsCarrying(ref) ==
  {<<"app_bookings", i>> : i \in {k \in 1..Len(app_bookings) :
       LowerRef(app_bookings[k].booking_reference) = LowerRef(ref)}}
  \cup {<<"bookings", j>> : j \in {k \in 1..Len(bookings) :
       LowerRef(bookings[k].booking_reference) = LowerRef(ref)}}

\* C21: a lookup by the reference a finalize call returned (complete_app_booking,
\* complete_guest_booking, the client insert or complete_booking) returns
\* exactly the booking that carries it, cancelled or not, and a lookup by a
\* reference no booking carries returns no row.
FinalizeLookupRoundTrip ==
  [][\A p \in Sessions :
       (pc[p] = "idle" /\ result'[p] = "lookup")
       => {<<"app_bookings", i>> : i \in call'[p].rows} = BookingsCarrying(call'[p].text)
          /\ Cardinality(call'[p].rows) <= 1]_vars

ValidationErrors ==
  {"not_authenticated", "no_seats_selected", "guest_name_required", "guest_email_required"}

\* a finalize call has ended with result r: no table and no lock changed,
\* and the caller holds no lock
RaisedUntouched(p, r) ==
  /\ result'[p] = r
  /\ pc'[p] = "done"
  /\ UNCHANGED <<app_bookings, advisory, showStore>>
  /\ \A e \in advisory' : e[2] # p

\* C22: complete_app_booking without auth.uid() raises not_authenticated;
\* with a NULL, non-array or empty seat list either finalize function raises
\* no_seats_selected; complete_guest_booking with a missing or blank name
\* (email) raises guest_name_required (guest_email_required).  Each of these
\* ends the call before the advisory lock is requested, and no table changes.
ValidationLeavesStateUntouched ==
  [][/\ \A p \in Sessions, seats \in SeatInputs, total \in Amounts :
          (pc[p] = "idle" /\ pc'[p] # "idle" /\ complete_app_booking(p, RaceShowing, seats, total))
          => /\ SessionUser[p] = NULL => RaisedUntouched(p, "not_authenticated")
             /\ (SessionUser[p] # NULL /\ (seats.kind # "array" \/ seats.ids = {}))
                  => RaisedUntouched(p, "no_seats_selected")
     /\ \A p \in Sessions, seats \in SeatInputs, total \in Amounts,
           gname \in GuestTexts, gemail \in GuestTexts :
          (pc[p] = "idle" /\ pc'[p] # "idle"
           /\ complete_guest_booking(p, RaceShowing, seats, total, gname, gemail))
          => /\ (seats.kind # "array" \/ seats.ids = {})
                  => RaisedUntouched(p, "no_seats_selected")
             /\ (seats.kind = "array" /\ seats.ids # {} /\ (gname.isnull \/ IsBlank(gname.chars)))
                  => RaisedUntouched(p, "guest_name_required")
             /\ (seats.kind = "array" /\ seats.ids # {} /\ ~(gname.isnull \/ IsBlank(gname.chars))
                 /\ (gemail.isnull \/ IsBlank(gemail.chars)))
                  => RaisedUntouched(p, "guest_email_required")
     /\ \A p \in Sessions :
          (pc[p] = "idle" /\ result'[p] \in ValidationErrors)
          => RaisedUntouched(p, result'[p])]_vars

\* C22 witness: with a booking stored, one call was refused for its missing
\* identity and another for its seat list or a blank guest field
ValidationRefused ==
  /\ Len(app_bookings) > 0
  /\ \E p, q \in Sessions :
       /\ result[p] = "not_authenticated"
       /\ result[q] \in {"no_seats_selected", "guest_name_required", "guest_email_required"}

\* C23: a booking is created as a whole: every bookings row has line-items
\* in booking_seats, or belongs to a handleProceedToPayment call whose
\* line-item insert is still to come; after a failed line-item insert no
\* header row of the attempt is left.
BookingAllOrNothing ==
  \A i \in 1..Len(bookings) :
    \/ LineItemSeats(i) # {}
    \/ \E p \in Sessions : pc[p] = "pp_seats" /\ call[p].booking_id = i

\* C24: complete_app_booking and complete_guest_booking lock the same key
\* for the same showing, and a call that has run its conflict check holds
\* that key until its transaction ends: no two finalize calls for one
\* showing are between their conflict check and their commit at once.
FinalizeMutualExclusion ==
  /\ \A p \in Sessions :
       pc[p] = "insert" => <<hashtext(LockText(call[p].showing)), p>> \in advisory
  /\ \A p, q \in Sessions :
       (p # q /\ pc[p] = "insert" /\ pc[q] = "insert")
       => call[p].showing # call[q].showing

\* C24 witness: an authenticated call is between its check and its commit
\* while a guest call for the same showing waits for the lock
GuestWaitsForAuthenticated ==
  \E p, q \in Sessions :
    /\ pc[p] = "insert" /\ ~call[p].guest
    /\ pc[q] = "lock" /\ call[q].guest
    /\ call[p].showing = call[q].showing

\* C25: reserve_seats rejects only because of the requested seats: when no
\* requested seat has a booking_seats row of the show or an unexpired hold
\* of another holder, the call is accepted and the table then holds exactly
\* one hold per requested seat for the caller, with expires_at = now() + 10
\* minutes, whatever bookings and holds exist on other seats of the show.
RejectsOnlyRequestedSeats ==
  [][\A p \in Sessions :
       (/\ pc[p] \in {"rs_check", "rs_insert"}
        /\ pc'[p] = "done"
        /\ \A seat \in call[p].seat_ids : ~ClaimedByAnother(call[p].show, seat, call[p].user_id))
       => (/\ result'[p] = "reserved"
           /\ {sr \in seat_reservations' : sr.show_id = call[p].show /\ sr.user_id = call[p].user_id}
                = {[show_id |-> call[p].show, seat_id |-> seat, user_id |-> call[p].user_id,
                    expires_at |-> call[p].txnow + 10] : seat \in call[p].seat_ids})]_vars

\* C26: a successful complete_booking by holder H for show S removes every
\* hold of H for S and leaves all other holds (of other holders, and of H
\* for other shows) as they were.
CompleteReleasesOwnHolds ==
  [][\A p \in Sessions :
       (pc[p] = "idle" /\ result'[p] = "ok" /\ Len(bookings') = Len(bookings) + 1)
       => LET b == bookings'[Len(bookings')] IN
            /\ b.user_id = SessionUser[p]
            /\ seat_reservations' =
                 {sr \in seat_reservations : ~(sr.show_id = b.show_id /\ sr.user_id = b.user_id)}]_vars

\* C26 witness: a holder has booked a show and holds nothing for it, while
\* their hold for the other show and another holder's hold for the booked
\* show are stored
OtherHoldsKept ==
  \E p \in Sessions, i \in 1..Len(bookings) :
    /\ result[p] = "ok"
    /\ i = Len(bookings)
    /\ bookings[i].user_id = SessionUser[p]
    /\ ~\E sr \in seat_reservations :
          sr.show_id = bookings[i].show_id /\ sr.user_id = bookings[i].user_id
    /\ \E sr \in seat_reservations :
          sr.show_id # bookings[i].show_id /\ sr.user_id = bookings[i].user_id
    /\ \E sr \in seat_reservations :
          sr.show_id = bookings[i].show_id /\ sr.user_id # bookings[i].user_id

\* C27: a collision of the generated reference with a stored one never ends
\* a finalize call: no call of complete_app_booking or complete_guest_booking
\* ends with a violation of UNIQUE (booking_reference) (it draws again and
\* stores its booking under a reference no other booking carries).
CollisionRetried ==
  /\ \A p \in Sessions : result[p] # "duplicate_booking_reference"
  /\ \A i, j \in 1..Len(app_bookings) :
       i # j => app_bookings[i].booking_reference # app_bookings[j].booking_reference

\* C28: for each booking type the refund the server-side cancel function
\* records equals what getRefundInfo presents for the booking at the same
\* instant: the cancel succeeds only where the client shows the booking as
\* cancellable, and refund_amount is the presented percentage of
\* total_amount.
ClientRefundMatchesServer ==
  [][\A p \in Sessions :
       /\ (pc[p] = "cancel_update" /\ pc'[p] = "done")
          => LET ab == app_bookings'[call[p].booking_id]
                 info == getRefundInfo(AppShowStart(ShowingOf(ab)), call[p].txnow) IN
               /\ info.eligible
               /\ 100 * ab.refund_amount = info.percentage * ab.total_amount
       /\ (pc[p] = "cb_update" /\ pc'[p] = "done")
          => LET b == bookings'[call[p].booking_id]
                 info == getRefundInfo(ShowStart[b.show_id], call[p].txnow) IN
               /\ info.eligible
               /\ 100 * b.refund_amount = info.percentage * b.total_amount]_vars

\* C29: of the cancel calls made for one booking only one writes: the UPDATE
\* of cancel_app_booking and of cancel_booking runs only on a booking that
\* is not cancelled yet, and the call that finds it cancelled returns
\* 'already cancelled' and leaves the row as it is.
CancelWritesOnce ==
  [][\A p \in Sessions :
       /\ (pc[p] = "cancel_update" /\ pc'[p] = "done")
          => /\ app_bookings[call[p].booking_id].status # "cancelled"
             /\ result'[p] = "cancelled"
       /\ (pc[p] = "cb_update" /\ pc'[p] = "done")
          => /\ bookings[call[p].booking_id].status # "cancelled"
             /\ result'[p] = "cancelled"
       /\ (pc[p] = "idle" /\ result'[p] = "already_cancelled")
          => UNCHANGED <<app_bookings, bookings, booking_seats>>]_vars

\* C30: under fair scheduling every finalize call that has passed its
\* validation returns (success or an error).  A session holds at most one
\* advisory lock, only between its conflict check and the end of its
\* transaction, and holds none once the call has ended, committed or
\* aborted; so a call waiting for the lock of its showing gets it.
FinalizeTerminates ==
  /\ [](\A p \in Sessions :
          /\ Cardinality({e \in advisory : e[2] = p}) <= 1
          /\ (pc[p] # "insert" => ~\E e \in advisory : e[2] = p))
  /\ \A p \in Sessions : (pc[p] \in {"lock", "insert"}) ~> (pc[p] = "done")

\* C30 witness: a call waits for the lock of its showing while another call
\* for that showing, which found its seat taken, still holds it
WaitsBehindAbortingCall ==
  \E p, q \in Sessions :
    /\ pc[p] = "lock"
    /\ pc[q] = "insert" /\ call[q].v_conflict
    /\ call[p].showing = call[q].showing
    /\ <<hashtext(LockText(call[p].showing)), q>> \in advisory

\* the rows stored for a showing, compared component by component
RowsOfShowing(tbl, sh) == {ab \in Rows(tbl) : ShowingOf(ab) = sh}

\* C31: a finalize or a cancel acting on one showing changes neither the
\* rows nor the booked-seat list of any other showing (one that differs in
\* movie, theater, date or time), and the conflict check of a finalize is
\* raised only by a non-cancelled booking of the very same showing.
ShowingsIndependent ==
  [][\A p \in Sessions :
       /\ (pc[p] = "insert" /\ pc'[p] = "done")
          => \A sh \in IndepShowings \ {call[p].showing} :
               /\ RowsOfShowing(app_bookings', sh) = RowsOfShowing(app_bookings, sh)
               /\ get_app_booked_seat_ids(app_bookings', sh) = get_app_booked_seat_ids(app_bookings, sh)
       /\ (pc[p] = "cancel_update" /\ pc'[p] = "done")
          => \A sh \in IndepShowings \ {ShowingOf(app_bookings[call[p].booking_id])} :
               /\ RowsOfShowing(app_bookings', sh) = RowsOfShowing(app_bookings, sh)
               /\ get_app_booked_seat_ids(app_bookings', sh) = get_app_booked_seat_ids(app_bookings, sh)
       /\ (pc[p] = "lock" /\ pc'[p] = "insert" /\ call'[p].v_conflict)
          => \E ab \in RowsOfShowing(app_bookings, call[p].showing) :
               ab.status # "cancelled" /\ ab.seats \cap call[p].seats # {}]_vars

\* C31 witness: the same seat id is booked, not cancelled, in two showings
\* that differ in one component only
SameSeatInTwoShowings ==
  \E i, j \in 1..Len(app_bookings) :
    /\ app_bookings[i].status # "cancelled" /\ app_bookings[j].status # "cancelled"
    /\ app_bookings[i].seats \cap app_bookings[j].seats # {}
    /\ ShowingOf(app_bookings[i]) = S1
    /\ ShowingOf(app_bookings[j]) \in IndepShowings \ {S1}

\* the line-items of a booking and the sum of their prices
LineItems(bid) == {bs \in booking_seats : bs.booking_id = bid}

RECURSIVE SumOfPrices(_)
SumOfPrices(items) ==
  IF items = {} THEN 0
  ELSE LET bs == CHOOSE x \in items : TRUE IN bs.price + SumOfPrices(items \ {bs})

\* C32: every stored line-item price is base_price * price_multiplier of
\* its show and seat, and the total_amount of every booking that has
\* line-items is the sum of their prices.
TotalIsSumOfSeatPrices ==
  /\ \A bs \in booking_seats :
       100 * bs.price = BasePrice[bs.show_id] * PriceMultiplier[bs.seat_id]
  /\ \A i \in 1..Len(bookings) :
       LineItems(i) # {} => bookings[i].total_amount = SumOfPrices(LineItems(i))

\* C33: a complete_booking call that creates a booking was given at least
\* one seat and stores exactly the seats it was given as line-items, and
\* every booking with status confirmed has at least one line-item.
ConfirmedHasItsSeats ==
  [][/\ \A p \in HoldClients, show \in Shows, seat_ids \in SUBSET Seats,
          total \in Amounts, suffix \in RandomSuffixes :
          (/\ pc[p] = "idle" /\ result'[p] = "ok"
           /\ Len(bookings') = Len(bookings) + 1
           /\ complete_booking(p, show, seat_ids, total, suffix))
          => /\ seat_ids # {}
             /\ {bs.seat_id : bs \in {r \in booking_seats' : r.booking_id = Len(bookings')}} = seat_ids
     /\ \A i \in 1..Len(bookings') :
          bookings'[i].status = "confirmed"
          => \E bs \in booking_seats' : bs.booking_id = i]_vars

\* C34: when reserve_seats rejects a request the caller has no hold for the
\* show afterwards (the holds they had are released although nothing was
\* acquired), no hold is added, and every unexpired hold of another holder
\* is still stored.
RejectionReleasesCallerHolds ==
  [][\A p \in Sessions :
       (pc[p] = "rs_check" /\ result'[p] = "rejected")
       => /\ ~\E sr \in seat_reservations' :
               sr.show_id = call[p].show /\ sr.user_id = call[p].user_id
          /\ seat_reservations' \subseteq seat_reservations
          /\ \A sr \in seat_reservations :
               (sr.user_id # call[p].user_id /\ sr.expires_at > now)
               => sr \in seat_reservations']_vars

\* C34 witness: a caller whose own hold for the show is being released is
\* about to be rejected, while another holder has an unexpired hold
RejectedWhileHolding ==
  \E p \in Sessions :
    /\ pc[p] = "rs_check"
    /\ \E sr \in call[p].deleted :
         sr.show_id = call[p].show /\ sr.user_id = call[p].user_id /\ sr.expires_at > now
    /\ unavailable_count(booking_seats, seat_reservations \ call[p].deleted,
                         call[p].show, call[p].seat_ids, call[p].txnow) > 0
    /\ \E sr \in seat_reservations : sr.user_id # call[p].user_id /\ sr.expires_at > now

\* C35: cancel_app_booking called for a guest booking (user_id NULL) returns
\* 'Booking not found' whatever _user_id is passed, NULL included, and no
\* step changes a guest booking: it stays confirmed and keeps its seats.
GuestBookingNeverCancelled ==
  [][/\ \A i \in 1..Len(app_bookings) :
          app_bookings[i].user_id = NULL => app_bookings'[i] = app_bookings[i]
     /\ \A p \in Sessions, bid \in BookingIds, uid \in CancelCallers :
          (/\ pc[p] = "idle" /\ pc'[p] # "idle"
           /\ bid <= Len(app_bookings) /\ app_bookings[bid].user_id = NULL
           /\ cancel_app_booking(p, bid, uid))
          => result'[p] = "booking_not_found"]_vars

\* C35 witness: after cancel calls, one refused with 'Booking not found',
\* the owned booking is cancelled and the guest booking is confirmed with
\* its seat still listed as booked
GuestBookingStillConfirmed ==
  /\ \E p \in Sessions : result[p] = "booking_not_found"
  /\ \E i, j \in 1..Len(app_bookings) :
       /\ app_bookings[i].user_id # NULL /\ app_bookings[i].status = "cancelled"
       /\ app_bookings[j].user_id = NULL /\ app_bookings[j].is_guest_booking
       /\ app_bookings[j].status = "confirmed"
       /\ app_bookings[j].seats \subseteq get_app_booked_seat_ids(app_bookings, ShowingOf(app_bookings[j]))

\* C36: a finalize call for a showing and a non-empty seat set finds a
\* conflict exactly when the set meets get_app_booked_seat_ids of the
\* showing in the state its conflict query reads, and it raises
\* seats_unavailable exactly when it found a conflict.
AvailabilityAgreesWithConflictCheck ==
  [][\A p \in Sessions :
       /\ (pc[p] = "lock" /\ pc'[p] = "insert")
          => /\ call[p].seats # {}
             /\ call'[p].v_conflict
                  = (call[p].seats \cap get_app_booked_seat_ids(app_bookings, call[p].showing) # {})
       /\ (pc[p] = "insert" /\ pc'[p] = "done")
          => ((result'[p] = "seats_unavailable") = call[p].v_conflict)]_vars

\* C36 witness: a call has passed its conflict check for a seat that the
\* availability list omits because only a cancelled booking has it, while
\* the list names another seat of the showing
CheckedAgainstReleasedSeat ==
  \E p \in Sessions :
    /\ pc[p] = "insert" /\ ~call[p].v_conflict
    /\ ReleasedSeatAmong(call[p].showing, call[p].seats)
    /\ call[p].seats \cap get_app_booked_seat_ids(app_bookings, call[p].showing) = {}
    /\ get_app_booked_seat_ids(app_bookings, call[p].showing) # {}


\* C37: in every state each booking of either store has
\* 0 <= refund_amount <= total_amount, and a booking with a non-zero
\* refund_amount or a set cancelled_at has status cancelled.
RefundWithinTotal ==
  \A b \in Rows(app_bookings) \cup Rows(bookings) :
    /\ 0 <= b.refund_amount
    /\ b.refund_amount <= b.total_amount
    /\ (b.refund_amount # 0 \/ b.cancelled_at # NoTime) => b.status = "cancelled"


\* C38: a client whose finalize call returned seats_unavailable issues no
\* call of its own: it re-queries the booked seats, every seat the query
\* reports as booked leaves its selection (and is shown as booked), and it
\* is idle again; a finalize call starts only from an idle page, by a
\* press of the button, with the seats selected at that moment.
NoAutomaticResubmit ==
  [][\A p \in Clients :
       /\ (pc[p] = "done" /\ result[p] = "seats_unavailable" /\ pc'[p] # "done")
            => (pc'[p] = "refresh" /\ call'[p] = NoCall /\ page'[p] = page[p])
       /\ (pc[p] = "refresh" /\ pc'[p] # "refresh")
            => /\ pc'[p] = "idle"
               /\ call'[p] = NoCall
               /\ page'[p].selectedSeats \subseteq page[p].selectedSeats
               /\ \E ok \in BOOLEAN :
                    LET reported == fetchBookedSeats(RaceShowing, ok) IN
                      /\ seatsData(page'[p].selectedSeats) \cap reported = {}
                      /\ seatsData(page[p].selectedSeats \ page'[p].selectedSeats) \subseteq reported
                      /\ seatsData(page'[p].isBooked) = reported \cap seatsData(ClientSeats)
       /\ (call[p] = NoCall /\ call'[p] # NoCall)
            => /\ pc[p] = "idle"
               /\ page[p].selectedSeats # {}
               /\ call'[p].seats = seatsData(page[p].selectedSeats)
  ]_vars

\* C38 witness: a client is re-querying after seats_unavailable while its
\* selection still holds a seat that is booked
RefreshingWithBookedSeatSelected ==
  \E p \in Clients :
    /\ pc[p] = "refresh"
    /\ seatsData(page[p].selectedSeats) \cap get_app_booked_seat_ids(app_bookings, RaceShowing) # {}

====
